---- MODULE Spec2Model ----
(***************************************************************************)
(* Hospital-Finder: the search pipeline of the Page component              *)
(* (src/app/page.tsx, handleSearch) with its helpers calculateRadius and   *)
(* fetchPlaces, the /api/geocode endpoint it calls (src/unnamed/part_001)  *)
(* and the earlier radius table getRadiusFromBoundingBox                   *)
(* (src/app/api/places/route.ts).                                          *)
(*                                                                         *)
(* Specifications.  Spec: the page with four cities.  ScenarioSpec: the    *)
(* page with one city and the deadline timers of fetchPlaces.  RadiusSpec, *)
(* NormSpec, ApiSpec: calculateRadius and the ladder, fetchPlaces, and the *)
(* /api/places endpoint, each applied to inputs drawn from bounded sets.   *)
(* GeoSpec: the /api/geocode endpoint and what handleSearch makes of its   *)
(* response.  SheetSpec: the bottom sheet of PlacesList under touches      *)
(* (src/components/PlacesList.tsx).                                        *)
(*                                                                         *)
(* Numbers.  Coordinates are fixed-point: one unit is 1/UnitsPerDegree of  *)
(* a degree, so an area in square degrees is counted in units of           *)
(* 1/SqDeg.  Radii are metres.  A JavaScript number that may be NaN is a   *)
(* record [nan, n]; a JSON value read from a response is a record [t, n]   *)
(* with t one of "num" (a numeric string or number), "str" (a non-numeric, *)
(* non-empty string), "empty" (the empty string) and "undef" (absent).     *)
(***************************************************************************)
EXTENDS Integers, Sequences, FiniteSets, TLC

(* ---------------------------- bounds ----------------------------------- *)

\* largest extent of a bounding box side drawn as an input, in coordinate units
MaxSpan == 21

\* element ids and the longest element list drawn as inputs of the normalizer
MaxId == 2
MaxLen == 2

\* ------------------------- units and values -----------------------------

UnitsPerDegree == 2 * 10
SqDeg == UnitsPerDegree * UnitsPerDegree

NULL == [t |-> "undef", n |-> 0]
NumV(n) == [t |-> "num", n |-> n]
StrV == [t |-> "str", n |-> 0]
EmptyV == [t |-> "empty", n |-> 0]

\* JavaScript truthiness of a JSON string-or-absent value (!x is its negation)
Truthy(v) == v.t \in {"num", "str"}

NaN == [nan |-> TRUE, n |-> 0]
Fin(n) == [nan |-> FALSE, n |-> n]

\* Number(s) for a string s: "" is 0, a non-numeric string or undefined is NaN
Number(v) ==
    CASE v.t = "num" -> Fin(v.n)
      [] v.t = "empty" -> Fin(0)
      [] OTHER -> NaN

\* parseFloat(s): NaN for the empty string as well
parseFloat(v) == IF v.t = "num" THEN Fin(v.n) ELSE NaN

Abs(x) == IF x < 0 THEN -x ELSE x

\* Math.abs(a - b) with NaN propagation
AbsDiff(a, b) == IF a.nan \/ b.nan THEN NaN ELSE Fin(Abs(a.n - b.n))

\* a * b with NaN propagation
Times(a, b) == IF a.nan \/ b.nan THEN NaN ELSE Fin(a.n * b.n)

\* area > k/d square degrees; every comparison with NaN is false
AreaAbove(area, k, d) == ~area.nan /\ area.n * d > k * SqDeg

\* bbox[i] of a JavaScript array (0-based i): undefined past the end
At(bbox, i) == IF i + 1 <= Len(bbox) THEN bbox[i + 1] ELSE NULL

\* --------------------------- RadiusEstimator ----------------------------

\* Math.abs(north - south) * Math.abs(east - west) over bbox.map(Number)
BoxArea(bbox) ==
    LET south == Number(At(bbox, 0))
        north == Number(At(bbox, 1))
        west == Number(At(bbox, 2))
        east == Number(At(bbox, 3))
    IN Times(AbsDiff(north, south), AbsDiff(east, west))

\* a bounding box argument: absent, or an array of strings
NoBox == [present |-> FALSE, arr |-> <<>>]
Box(arr) == [present |-> TRUE, arr |-> arr]

calculateRadiusNoGuard(bbox) ==
    LET area == BoxArea(bbox.arr)
    IN IF AreaAbove(area, 1, 1) THEN 50000
       ELSE IF AreaAbove(area, 1, 2) THEN 35000
       ELSE IF AreaAbove(area, 1, 10) THEN 25000
       ELSE IF AreaAbove(area, 1, 100) THEN 15000
       ELSE 10000

\* calculateRadius(bbox?: string[]): the default for a missing or malformed
\* box, else the tier of the box's area
calculateRadius(bbox) ==
    IF ~bbox.present \/ Len(bbox.arr) # 4 THEN 15000
    ELSE LET area == BoxArea(bbox.arr)
         IN IF AreaAbove(area, 1, 1) THEN 50000
            ELSE IF AreaAbove(area, 1, 2) THEN 35000
            ELSE IF AreaAbove(area, 1, 10) THEN 25000
            ELSE IF AreaAbove(area, 1, 100) THEN 15000
            ELSE 10000

getRadiusFromBoundingBoxSwapped(arr) ==
    LET area == BoxArea(arr)
    IN IF AreaAbove(area, 1, 1) THEN 50000
       ELSE IF AreaAbove(area, 1, 2) THEN 20000
       ELSE IF AreaAbove(area, 1, 10) THEN 30000
       ELSE IF AreaAbove(area, 1, 100) THEN 10000
       ELSE 5000

getRadiusFromBoundingBox(arr) ==
    LET area == BoxArea(arr)
    IN IF AreaAbove(area, 1, 1) THEN 50000
       ELSE IF AreaAbove(area, 1, 2) THEN 30000
       ELSE IF AreaAbove(area, 1, 10) THEN 20000
       ELSE IF AreaAbove(area, 1, 100) THEN 10000
       ELSE 5000

Min(a, b) == IF a < b THEN a ELSE b

AttemptsUncapped(baseRadius) == <<baseRadius, baseRadius * 2, 50000>>

\* const attempts = [baseRadius, Math.min(baseRadius * 2, 50000), 50000]
Attempts(baseRadius) == <<baseRadius, Min(baseRadius * 2, 50000), 50000>>

\* ------------------------------ city input ------------------------------

\* The text of the search box is a sequence of tokens; " " is white space.
RECURSIVE TrimStart(_)
TrimStart(s) == IF s # <<>> /\ Head(s) = " " THEN TrimStart(Tail(s)) ELSE s

RECURSIVE TrimEnd(_)
TrimEnd(s) ==
    IF s # <<>> /\ s[Len(s)] = " " THEN TrimEnd(SubSeq(s, 1, Len(s) - 1)) ELSE s

\* String.prototype.trim
Trim(s) == TrimEnd(TrimStart(s))

\* what the user types into the (initially empty) search box
CityInputs ==
    {<<" ">>, <<"Paris">>, <<" ", "Lyon", " ">>, <<"Atlantis">>}

\* ------------------------- geocoding service ----------------------------

\* What Nominatim knows: the candidate list for a query (limit=1).
Candidates(q) ==
    CASE q = <<"Paris">> ->
           <<[lat |-> NumV(10), lon |-> NumV(2),
              boundingbox |-> Box(<<NumV(0), NumV(21), NumV(0), NumV(21)>>)]>>
      [] q = <<"Lyon">> ->
           <<[lat |-> NumV(9), lon |-> NumV(1), boundingbox |-> NoBox]>>
      [] q = <<"Springfield">> ->
           <<[lat |-> NumV(796), lon |-> NumV(-1793),
              boundingbox |-> Box(<<NumV(794), NumV(797),
                                    NumV(-1794), NumV(-1791)>>)]>>
      [] OTHER -> <<>>

\* The answers the geocoding service gives to one request of a search: the
\* candidate list, or a non-success status.
NominatimAnswers(q) ==
    { [kind |-> "ok", status |-> 200, data |-> Candidates(q)],
      [kind |-> "status", status |-> 503, data |-> <<>>] }

NoCandidate == [lat |-> NULL, lon |-> NULL, boundingbox |-> NoBox]

\* NextResponse.json({ error }, { status }): no candidate in the body
ErrorResponse(status, error) ==
    [status |-> status, error |-> error, body |-> NoCandidate]

\* the previous /api/geocode: data[0] ?? null with status 200 in every case
GETLegacy(q, answer) ==
    IF answer.kind \in {"reject", "malformed"} THEN ErrorResponse(500, "")
    ELSE IF Len(answer.data) = 0 THEN ErrorResponse(200, "")
    ELSE [status |-> 200, error |-> "", body |-> answer.data[1]]

GETUnchecked(q, answer) ==
    IF answer.kind \in {"reject", "malformed"}
    THEN ErrorResponse(500, "Internal server error")
    ELSE IF Len(answer.data) = 0 THEN ErrorResponse(200, "")
    ELSE [status |-> 200, error |-> "", body |-> answer.data[1]]

\* GET /api/geocode?city=q, given the geocoding service's answer
GET(q, answer) ==
    IF q = <<>> THEN ErrorResponse(400, "City parameter is required")
    ELSE IF answer.kind \in {"reject", "malformed"}
    THEN ErrorResponse(500, "Internal server error")
    ELSE IF answer.kind = "status"
    THEN ErrorResponse(502, "Geocoding service error: " \o ToString(answer.status))
    ELSE IF Len(answer.data) = 0 THEN ErrorResponse(404, "City not found")
    ELSE [status |-> 200, error |-> "", body |-> answer.data[1]]

\* Response.ok
Ok(status) == status >= 200 /\ status <= 299

\* ---------------------------- POI service -------------------------------

Undefined == [def |-> FALSE, n |-> 0]
Defined(n) == [def |-> TRUE, n |-> n]
NoCenter == [def |-> FALSE, lat |-> 0, lon |-> 0]
Center(lat, lon) == [def |-> TRUE, lat |-> lat, lon |-> lon]
\* element.tags: absent, or a mapping, of which the model keeps the name
\* ("" when the mapping has no name)
NoTags == [def |-> FALSE, name |-> ""]
Tags(name) == [def |-> TRUE, name |-> name]

Node(id, lat, lon, tags) ==
    [type |-> "node", id |-> id, lat |-> Defined(lat), lon |-> Defined(lon),
     center |-> NoCenter, tags |-> tags]
Way(id, lat, lon, tags) ==
    [type |-> "way", id |-> id, lat |-> Undefined, lon |-> Undefined,
     center |-> Center(lat, lon), tags |-> tags]

\* Element lists the POI service may answer with.
ElementsNearby ==
    <<Node(9, 12, 2, Tags("General")), Node(5, 11, 3, NoTags),
      Way(4, 10, 3, Tags(""))>>
ElementsUntagged == <<Node(8, 10, 2, NoTags)>>
ElementsSpringfield ==
    <<Node(5, 798, -1793, Tags("Memorial")), Node(7, 797, -1793, Tags("Clinic")),
      Way(3, 796, -1792, Tags("St John"))>>

\* what the POI service has around (lat, lon)
ElementsAround(lat, lon) ==
    IF lat > 90 THEN ElementsSpringfield ELSE ElementsNearby

\* The answers the POI service gives to one query of a search: an element
\* list (what it has around the queried point, nothing, or one untagged
\* node), a body without elements, or a non-success status.  The request
\* carries no abort signal, so it is never aborted.
OverpassAnswers(lat, lon) ==
    { [kind |-> "ok", status |-> 200, hasElements |-> TRUE, elements |-> e] :
          e \in {<<>>, ElementsAround(lat, lon), ElementsUntagged} }
    \cup { [kind |-> "ok", status |-> 200, hasElements |-> FALSE, elements |-> <<>>],
           [kind |-> "status", status |-> 504, hasElements |-> FALSE, elements |-> <<>>] }

\* element.lat ?? element.center?.lat
ElementLat(el) ==
    IF el.lat.def THEN el.lat
    ELSE IF el.center.def THEN Defined(el.center.lat) ELSE Undefined
ElementLon(el) ==
    IF el.lon.def THEN el.lon
    ELSE IF el.center.def THEN Defined(el.center.lon) ELSE Undefined

\* !x for a number-or-undefined x: undefined and 0 are falsy
Falsy(x) == ~x.def \/ x.n = 0

\* the loop over data.elements of fetchPlaces
RECURSIVE ProcessElements(_)
ProcessElements(elements) ==
    IF elements = <<>> THEN <<>>
    ELSE LET element == Head(elements)
             elementLat == ElementLat(element)
             elementLon == ElementLon(element)
             rest == ProcessElements(Tail(elements))
         IN IF Falsy(elementLat) \/ Falsy(elementLon) \/ ~element.tags.def
            THEN rest
            ELSE <<[id |-> element.id, lat |-> elementLat.n,
                    lon |-> elementLon.n, tags |-> element.tags]>> \o rest

Returned(places) == [threw |-> FALSE, message |-> "", places |-> places]
Thrown(message) == [threw |-> TRUE, message |-> message, places |-> <<>>]

fetchPlacesLenient(answer) ==
    IF answer.kind # "ok" \/ ~answer.hasElements \/ Len(answer.elements) = 0
    THEN Returned(<<>>)
    ELSE Returned(ProcessElements(answer.elements))

\* fetchPlaces(lat, lon, radius), given the POI service's answer
fetchPlaces(answer) ==
    CASE answer.kind = "abort" -> Thrown("Request timed out")
      [] answer.kind = "reject" -> Thrown("Failed to fetch")
      [] answer.kind = "status" ->
           Thrown("Overpass API error: " \o ToString(answer.status))
      [] OTHER ->
           IF ~answer.hasElements \/ Len(answer.elements) = 0
           THEN Returned(<<>>)
           ELSE Returned(ProcessElements(answer.elements))

\* ------------------------------ ranking ---------------------------------

\* Math.hypot(p.lat - lat, p.lon - lon), squared (the order is the same)
Dist2(p, lat, lon) ==
    (p.lat - lat) * (p.lat - lat) + (p.lon - lon) * (p.lon - lon)

\* insert p after every element that is not farther than p (stable)
RECURSIVE Insert(_, _, _, _)
Insert(p, sorted, lat, lon) ==
    IF sorted = <<>> THEN <<p>>
    ELSE IF Dist2(Head(sorted), lat, lon) <= Dist2(p, lat, lon)
         THEN <<Head(sorted)>> \o Insert(p, Tail(sorted), lat, lon)
         ELSE <<p>> \o sorted

\* results.sort((a, b) => distA - distB): Array.prototype.sort is stable
RECURSIVE SortByDistance(_, _, _)
SortByDistance(results, lat, lon) ==
    IF results = <<>> THEN <<>>
    ELSE Insert(results[Len(results)],
                SortByDistance(SubSeq(results, 1, Len(results) - 1), lat, lon),
                lat, lon)

\* ------------------------------- state ----------------------------------

VARIABLES
    city,        \* text of the search box
    center,      \* map centre, <<lat, lon>>
    places,      \* displayed result set
    selectedId,  \* <<>> for null, <<id>> for a selected facility
    loading,     \* loading flag
    error,       \* error message, or null
    calls,       \* the invocations of handleSearch, one record per call slot
    bbox,        \* RadiusEstimator under test: its bounding box argument
    phase,       \* ... "input", "estimated" or "ladder"
    baseRadius,  \* ... calculateRadius(bbox)
    firstRadius, \* ... the earlier table's radius for the same box
    attempts,    \* ... the retry ladder built from baseRadius
    raw,         \* fetchPlaces under test: data.elements of the answer
    normalized,  \* ... the Place[] it returns
    apiRequest,  \* /api/places under test: the query parameters
    apiResponse, \* ... the endpoint's response
    geoRequest,  \* /api/geocode under test: the city and Nominatim's answer
    geoResponse, \* ... the endpoint's response
    geoResult,   \* ... what STEP 1 of handleSearch makes of that response
    sheetState,  \* bottom sheet: "collapsed", "mid" or "expanded"
    touchStartY, \* ... touchStartY.current: null or the y of the touch start
    swipe        \* ... the last touch end: the state before it, start and end y

vars == <<city, center, places, selectedId, loading, error, calls,
          bbox, phase, baseRadius, firstRadius, attempts,
          raw, normalized, apiRequest, apiResponse,
          geoRequest, geoResponse, geoResult,
          sheetState, touchStartY, swipe>>

pageVars == <<city, center, places, selectedId, loading, error, calls>>
radiusVars == <<bbox, phase, baseRadius, firstRadius, attempts>>
normVars == <<raw, normalized>>
apiVars == <<apiRequest, apiResponse>>
geoVars == <<geoRequest, geoResponse, geoResult>>
sheetVars == <<sheetState, touchStartY, swipe>>
sideVars == <<radiusVars, normVars, apiVars, geoVars, sheetVars>>

null == "null"

BlankMessage == "Please enter a city name"
NotFoundMessage == "City not found. Please check spelling."
InvalidMessage == "Invalid coordinates received"
NoResultsMessage ==
    "No hospitals or clinics found nearby. Try a larger city or different location."

\* Two invocations of handleSearch can be in flight together.  The record of
\* a finished invocation is kept until the next search starts; its slot is
\* then free for a later invocation.
Calls == {"A", "B"}

InFlight == {"geocode", "query"}

\* An invocation: its position (pc), the locals of handleSearch (trimmedCity,
\* lat, lon, attempts, i, results) and its history: the geocoding service's
\* answer (geo), the spatial queries sent (log), the outcomes delivered
\* (outcome), whether the catch block ran (raised), whether a later
\* invocation started while this one was in flight (superseded) and whether
\* the AbortController of the current fetchPlaces has been aborted (aborted),
\* the number of geocode requests sent (geocodes) and the content of the
\* results array before it was sorted (unranked).
IdleCall ==
    [pc |-> "idle", trimmedCity |-> <<>>, lat |-> 0, lon |-> 0,
     attempts |-> <<>>, i |-> 0, results |-> <<>>,
     geo |-> "none", log |-> <<>>, outcome |-> <<>>,
     raised |-> FALSE, superseded |-> FALSE, aborted |-> FALSE,
     geocodes |-> 0, unranked |-> <<>>]

PageInit ==
    /\ city = <<>>
    /\ center = <<412, 1579>>
    /\ places = <<>>
    /\ selectedId = <<>>
    /\ loading = FALSE
    /\ error = null
    /\ calls = [s \in Calls |-> IdleCall]

RadiusIdle ==
    /\ bbox = NoBox
    /\ phase = "off"
    /\ baseRadius = 0
    /\ firstRadius = 0
    /\ attempts = <<>>

NormIdle ==
    /\ raw = <<>>
    /\ normalized = <<>>

NoRequest == [lat |-> NULL, lon |-> NULL, radius |-> NULL]
NoAnswer == [kind |-> "none", status |-> 0, hasElements |-> FALSE, elements |-> <<>>]
NoResponse ==
    [status |-> 0, json |-> "none", body |-> <<>>, fetched |-> FALSE,
     radius |-> NULL, upstream |-> NoAnswer]

ApiIdle ==
    /\ apiRequest = NoRequest
    /\ apiResponse = NoResponse

NoGeoResult ==
    [threw |-> FALSE, message |-> "", lat |-> 0, lon |-> 0, boundingbox |-> NoBox]

GeoIdle ==
    /\ geoRequest = [city |-> <<>>,
                     answer |-> [kind |-> "none", status |-> 0, data |-> <<>>]]
    /\ geoResponse = ErrorResponse(0, "")
    /\ geoResult = NoGeoResult

NoSwipe == [acted |-> FALSE, before |-> "mid", hadStart |-> FALSE,
            start |-> 0, end |-> 0]

\* useState<SheetState>("mid"), useRef<number | null>(null)
SheetIdle ==
    /\ sheetState = "mid"
    /\ touchStartY = Undefined
    /\ swipe = NoSwipe

\* The viewport of Spec is a desktop one (innerWidth >= 768): handleSelect
\* leaves the bottom sheet alone there; SheetSpec has the mobile sheet.
Init == PageInit /\ RadiusIdle /\ NormIdle /\ ApiIdle /\ GeoIdle /\ SheetIdle

\* ---------------------------- handleSearch ------------------------------

\* onChange of the search box
SetCity(v) ==
    /\ v # city
    /\ city' = v
    /\ UNCHANGED <<center, places, selectedId, loading, error, calls>>

\* the state writes that deliver an outcome, and their record in the call
Deliver(s, c, kind, newPlaces, newError) ==
    /\ places' = newPlaces
    /\ error' = newError
    /\ loading' = FALSE
    /\ calls' = [calls EXCEPT ![s] =
           [c EXCEPT !.pc = "done",
                     !.outcome = Append(c.outcome,
                         [kind |-> kind, places |-> newPlaces,
                          error |-> newError])]]
    /\ UNCHANGED <<city, selectedId>>

CatchSilent(s, c, message) ==
    /\ loading' = FALSE
    /\ calls' = [calls EXCEPT ![s] = [c EXCEPT !.pc = "done", !.raised = TRUE]]
    /\ UNCHANGED <<city, selectedId, places, error>>

\* catch (err) { setError(message); setPlaces([]) } finally { setLoading(false) }
Catch(s, c, message) ==
    Deliver(s, [c EXCEPT !.raised = TRUE], "Failed", <<>>, message)

AfterLoopThrows(s, c) ==
    IF Len(c.results) > 0
    THEN Deliver(s, c, "Success", SortByDistance(c.results, c.lat, c.lon), error)
    ELSE Catch(s, c, NoResultsMessage)

AfterLoopFirst(s, c) ==
    IF Len(c.results) > 0
    THEN Deliver(s, c, "Success",
                 SubSeq(SortByDistance(c.results, c.lat, c.lon), 1, 1), error)
    ELSE Deliver(s, c, "Exhausted", c.results, NoResultsMessage)

\* STEP 3: sort by distance, or report that nothing was found; setPlaces.
\* results.sort(...) sorts the array in place.
AfterLoop(s, c) ==
    IF Len(c.results) > 0
    THEN LET sorted == SortByDistance(c.results, c.lat, c.lon)
         IN Deliver(s, [c EXCEPT !.unranked = c.results, !.results = sorted],
                    "Success", sorted, error)
    ELSE Deliver(s, [c EXCEPT !.unranked = c.results],
                 "Exhausted", c.results, NoResultsMessage)

SendQueryTwice(s, c) ==
    LET entry == [radius |-> c.attempts[c.i + 1], rung |-> c.i + 1,
                  outcome |-> "pending", status |-> 0, message |-> "",
                  count |-> 0]
    IN calls' = [calls EXCEPT ![s] =
           [c EXCEPT !.pc = "query", !.aborted = FALSE,
                     !.log = c.log \o <<entry, entry>>]]

\* the call to fetchPlaces of loop iteration c.i: a new AbortController, and
\* the query is sent (status is the HTTP status of its answer, 0 until then)
SendQuery(s, c) ==
    /\ calls' = [calls EXCEPT ![s] =
           [c EXCEPT !.pc = "query",
                     !.aborted = FALSE,
                     !.log = Append(c.log,
                         [radius |-> c.attempts[c.i + 1], rung |-> c.i + 1,
                          outcome |-> "pending", status |-> 0, message |-> "",
                          count |-> 0])]]

RungVerdictRethrow(i, n, r) ==
    IF r.threw THEN "throw"
    ELSE IF Len(r.places) > 0 THEN "break" ELSE "continue"

RungVerdictNoBreak(i, n, r) ==
    IF r.threw THEN (IF i = n - 1 THEN "throw" ELSE "continue")
    ELSE "continue"

\* the body of the for loop, for the outcome r of fetchPlaces at iteration i
\* of n: break on results, rethrow on the last iteration, go on otherwise
RungVerdict(i, n, r) ==
    IF r.threw THEN (IF i = n - 1 THEN "throw" ELSE "continue")
    ELSE IF Len(r.places) > 0 THEN "break" ELSE "continue"

GeocodeResultUnchecked(response) ==
    [threw |-> FALSE, message |-> "",
     lat |-> response.body.lat.n, lon |-> response.body.lon.n,
     boundingbox |-> response.body.boundingbox]

GeocodeResultGeneric(response) ==
    IF Ok(response.status)
    THEN [threw |-> FALSE, message |-> "",
          lat |-> response.body.lat.n, lon |-> response.body.lon.n,
          boundingbox |-> response.body.boundingbox]
    ELSE [threw |-> TRUE, message |-> "Geocoding failed", lat |-> 0, lon |-> 0,
          boundingbox |-> NoBox]

\* STEP 1 of handleSearch, for the response of /api/geocode
GeocodeResult(response) ==
    LET geoData == response.body
        lat == parseFloat(geoData.lat)
        lon == parseFloat(geoData.lon)
        failed(message) ==
            [threw |-> TRUE, message |-> message, lat |-> 0, lon |-> 0,
             boundingbox |-> NoBox]
    IN IF ~Ok(response.status)
       THEN failed("Geocoding failed: " \o ToString(response.status))
       ELSE IF ~Truthy(geoData.lat) \/ ~Truthy(geoData.lon)
       THEN failed(NotFoundMessage)
       ELSE IF lat.nan \/ lon.nan
       THEN failed(InvalidMessage)
       ELSE [threw |-> FALSE, message |-> "", lat |-> lat.n, lon |-> lon.n,
             boundingbox |-> geoData.boundingbox]

\* what the geocoding service answered: the candidate list was empty ("zero"),
\* had a match ("match"), or the service failed ("status", "reject")
GeoKind(answer) ==
    IF answer.kind # "ok" THEN answer.kind
    ELSE IF Len(answer.data) = 0 THEN "zero" ELSE "match"

\* the call slot a new invocation takes: the first one not in flight
FreeSlot ==
    IF calls["A"].pc \notin InFlight THEN "A"
    ELSE IF calls["B"].pc \notin InFlight THEN "B" ELSE "none"

HandleSearchNoGuard(s) ==
    /\ s = FreeSlot
    /\ loading' = TRUE
    /\ places' = <<>>
    /\ selectedId' = <<>>
    /\ error' = null
    /\ calls' = [c \in Calls |->
           IF c = s
           THEN [IdleCall EXCEPT !.pc = "geocode", !.trimmedCity = Trim(city),
                                 !.geocodes = 1]
           ELSE IF calls[c].pc \in InFlight
                THEN [calls[c] EXCEPT !.superseded = TRUE]
                ELSE IdleCall]
    /\ UNCHANGED <<city, center>>

\* handleSearch up to its first await
HandleSearch(s) ==
    LET trimmedCity == Trim(city)
    IN IF trimmedCity = <<>>
       THEN /\ error' = BlankMessage
            /\ UNCHANGED <<city, center, places, selectedId, loading, calls>>
       ELSE /\ s = FreeSlot
            /\ loading' = TRUE
            /\ places' = <<>>
            /\ selectedId' = <<>>
            /\ error' = null
            /\ calls' = [c \in Calls |->
                   IF c = s
                   THEN [IdleCall EXCEPT !.pc = "geocode",
                                         !.trimmedCity = trimmedCity,
                                         !.geocodes = 1]
                   ELSE IF calls[c].pc \in InFlight
                        THEN [calls[c] EXCEPT !.superseded = TRUE]
                        ELSE IdleCall]
            /\ UNCHANGED <<city, center>>

\* the geocode response arrives: handleSearch runs on to the first query
GeocodeResponse(s) ==
    /\ calls[s].pc = "geocode"
    /\ \E answer \in NominatimAnswers(calls[s].trimmedCity) :
         LET geo == GeocodeResult(GET(calls[s].trimmedCity, answer))
             c == [calls[s] EXCEPT !.geo = GeoKind(answer)]
         IN IF geo.threw
            THEN Catch(s, c, geo.message) /\ UNCHANGED center
            ELSE /\ center' = <<geo.lat, geo.lon>>
                 /\ SendQuery(s, [c EXCEPT !.lat = geo.lat, !.lon = geo.lon,
                        !.attempts = Attempts(calculateRadius(geo.boundingbox)),
                        !.i = 0])
                 /\ UNCHANGED <<city, places, selectedId, loading, error>>

\* a query response arrives: handleSearch runs on to the next query or the end
QueryResponse(s) ==
    /\ calls[s].pc = "query"
    /\ \E answer \in OverpassAnswers(calls[s].lat, calls[s].lon) :
         LET c0 == calls[s]
             r == fetchPlaces(answer)
             n == Len(c0.attempts)
             verdict == RungVerdict(c0.i, n, r)
             c == [c0 EXCEPT
                     !.results = IF r.threw THEN c0.results ELSE r.places,
                     !.log[Len(c0.log)] =
                         [radius |-> c0.log[Len(c0.log)].radius,
                          rung |-> c0.log[Len(c0.log)].rung,
                          outcome |-> IF r.threw THEN "error"
                                      ELSE IF Len(r.places) > 0 THEN "found"
                                      ELSE "empty",
                          status |-> answer.status,
                          message |-> r.message,
                          count |-> Len(r.places)]]
         IN CASE verdict = "throw" -> Catch(s, c, r.message) /\ UNCHANGED center
              [] verdict = "break" -> AfterLoop(s, c) /\ UNCHANGED center
              [] OTHER ->
                   IF c.i + 1 < n
                   THEN /\ SendQuery(s, [c EXCEPT !.i = c.i + 1])
                        /\ UNCHANGED <<city, center, places, selectedId,
                                       loading, error>>
                   ELSE AfterLoop(s, c) /\ UNCHANGED center

\* the callback of setTimeout(() => controller.abort(), 35000) of fetchPlaces,
\* pending from the fetch call until clearTimeout: it aborts the controller.
\* fetch is called without the controller's signal, so nothing else follows.
AbortTimer(s) ==
    /\ calls[s].pc = "query"
    /\ ~calls[s].aborted
    /\ calls' = [calls EXCEPT ![s].aborted = TRUE]
    /\ UNCHANGED <<city, center, places, selectedId, loading, error>>

\* a click on a displayed facility
HandleSelect(k) ==
    /\ k \in 1..Len(places)
    /\ selectedId' = <<places[k].id>>
    /\ center' = <<places[k].lat, places[k].lon>>
    /\ UNCHANGED <<city, places, loading, error, calls>>

\* "Try again", shown with an error: setError(null), then handleSearch() when
\* the search box is not blank
HandleRetry(s) ==
    /\ error # null
    /\ IF Trim(city) = <<>>
       THEN /\ error' = null
            /\ UNCHANGED <<city, center, places, selectedId, loading, calls>>
       ELSE HandleSearch(s)

Next ==
    \/ \E v \in CityInputs : SetCity(v) /\ UNCHANGED sideVars
    \/ \E s \in Calls : HandleSearch(s) /\ UNCHANGED sideVars
    \/ \E s \in Calls : HandleRetry(s) /\ UNCHANGED sideVars
    \/ \E s \in Calls : GeocodeResponse(s) /\ UNCHANGED sideVars
    \/ \E s \in Calls : QueryResponse(s) /\ UNCHANGED sideVars
    \/ \E k \in 1..2 : HandleSelect(k) /\ UNCHANGED sideVars

\* The page with the four cities of CityInputs.  The deadline timer of
\* fetchPlaces is left out of Next: the flag it sets is read by nothing.
Spec == Init /\ [][Next]_vars

\* ----------------- one city, with the deadline timers -------------------

ScenarioInputs == {<<"Springfield">>}

ScenarioNext ==
    \/ \E v \in ScenarioInputs : SetCity(v) /\ UNCHANGED sideVars
    \/ \E s \in Calls : HandleSearch(s) /\ UNCHANGED sideVars
    \/ \E s \in Calls : HandleRetry(s) /\ UNCHANGED sideVars
    \/ \E s \in Calls : GeocodeResponse(s) /\ UNCHANGED sideVars
    \/ \E s \in Calls : QueryResponse(s) /\ UNCHANGED sideVars
    \/ \E s \in Calls : AbortTimer(s) /\ UNCHANGED sideVars
    \/ \E k \in 1..3 : HandleSelect(k) /\ UNCHANGED sideVars

\* The page when the user searches Springfield, with the timers of fetchPlaces.
ScenarioSpec == Init /\ [][ScenarioNext]_vars

\* --------------------- RadiusEstimator on its own ------------------------

\* One side of a bounding box, as the strings of a geocoding match: a number
\* of coordinate units, a non-numeric string or the empty string.
Coords == {NumV(n) : n \in 0..MaxSpan} \cup {StrV, EmptyV}

\* Bounding box arguments: absent, an array that is too short, and the arrays
\* [south, north, west, east] with south 0 and west at either end of the range.
BoxInputs ==
    {NoBox, Box(<<NumV(0), NumV(1), NumV(0)>>)}
    \cup { Box(<<NumV(0), north, west, east>>) :
             north \in Coords, west \in {NumV(0), NumV(MaxSpan)}, east \in Coords }

RadiusInit ==
    /\ PageInit
    /\ NormIdle
    /\ ApiIdle
    /\ GeoIdle
    /\ SheetIdle
    /\ bbox \in BoxInputs
    /\ phase = "input"
    /\ baseRadius = 0
    /\ firstRadius = 0
    /\ attempts = <<>>

\* const baseRadius = calculateRadius(geoData.boundingbox), and the earlier
\* page's geo.boundingbox ? getRadiusFromBoundingBox(geo.boundingbox) : 15000
EstimateRadius ==
    /\ phase = "input"
    /\ phase' = "estimated"
    /\ baseRadius' = calculateRadius(bbox)
    /\ firstRadius' = IF bbox.present THEN getRadiusFromBoundingBox(bbox.arr)
                      ELSE 15000
    /\ UNCHANGED <<bbox, attempts>>

\* const attempts = [...]
BuildAttempts ==
    /\ phase = "estimated"
    /\ phase' = "ladder"
    /\ attempts' = Attempts(baseRadius)
    /\ UNCHANGED <<bbox, baseRadius, firstRadius>>

RadiusNext ==
    \/ EstimateRadius /\ UNCHANGED <<pageVars, normVars, apiVars, geoVars, sheetVars>>
    \/ BuildAttempts /\ UNCHANGED <<pageVars, normVars, apiVars, geoVars, sheetVars>>

RadiusSpec == RadiusInit /\ [][RadiusNext]_vars

\* ------------------------- fetchPlaces on its own ------------------------

LatLimit == 90 * UnitsPerDegree
LonLimit == 180 * UnitsPerDegree

\* Number.isFinite and the ranges of latitude and longitude
InRange(lat, lon) ==
    /\ lat >= -LatLimit /\ lat <= LatLimit
    /\ lon >= -LonLimit /\ lon <= LonLimit

\* The elements with id `id` and tags `tags`: a node, a node on the equator,
\* a node north of the pole, a way with a centroid, a way with its centroid on
\* the equator, a way with its centroid east of the antimeridian, a way with
\* no coordinates at all, a node that carries a centroid as well.
ElementShapes(id, tags) ==
    { Node(id, 5, 7, tags), Node(id, 0, 7, tags), Node(id, LatLimit + 1, 7, tags),
      Way(id, 6, 8, tags), Way(id, 0, 8, tags), Way(id, 6, LonLimit + 1, tags),
      [Way(id, 0, 0, tags) EXCEPT !.center = NoCenter],
      [Node(id, 5, 7, tags) EXCEPT !.center = Center(6, 8)] }

ElementInputs ==
    UNION { ElementShapes(id, tags) :
              id \in 1..MaxId, tags \in {NoTags, Tags(""), Tags("X")} }

RawInputs == UNION { [1..n -> ElementInputs] : n \in 0..MaxLen }

NormInit ==
    /\ PageInit
    /\ RadiusIdle
    /\ ApiIdle
    /\ GeoIdle
    /\ SheetIdle
    /\ raw \in RawInputs
    /\ normalized = <<>>

\* fetchPlaces for an answer with status 200 and data.elements = raw
Normalize ==
    /\ phase = "off"
    /\ phase' = "normalized"
    /\ normalized' = fetchPlaces([kind |-> "ok", status |-> 200,
                                   hasElements |-> TRUE, elements |-> raw]).places
    /\ UNCHANGED <<raw, bbox, baseRadius, firstRadius, attempts>>

NormNext == Normalize /\ UNCHANGED <<pageVars, apiVars, geoVars, sheetVars>>

NormSpec == NormInit /\ [][NormNext]_vars

\* ------------------------ the /api/places endpoint -----------------------

\* NextResponse.json(elements): status 200 and a JSON array.  The record keeps
\* whether the POI service was contacted (fetched), with which radius, and
\* what it answered (upstream).
JsonArray(elements, fetched, radius, answer) ==
    [status |-> 200, json |-> "array", body |-> elements, fetched |-> fetched,
     radius |-> radius, upstream |-> answer]

PlacesGETStrict(req, answer) ==
    IF ~Truthy(req.lat) \/ ~Truthy(req.lon)
    THEN [status |-> 400, json |-> "object", body |-> <<>>, fetched |-> FALSE,
          radius |-> NULL, upstream |-> NoAnswer]
    ELSE IF answer.kind # "ok" \/ ~Ok(answer.status)
    THEN [status |-> 502, json |-> "object", body |-> <<>>, fetched |-> TRUE,
          radius |-> req.radius, upstream |-> answer]
    ELSE JsonArray(answer.elements, TRUE, req.radius, answer)

\* GET /api/places?lat=&lon=&radius=, given the POI service's answer
PlacesGET(req, answer) ==
    LET radius == IF req.radius.t = "undef" THEN NumV(15000) ELSE req.radius
    IN IF ~Truthy(req.lat) \/ ~Truthy(req.lon)
       THEN JsonArray(<<>>, FALSE, NULL, NoAnswer)
       ELSE IF answer.kind = "reject" THEN JsonArray(<<>>, TRUE, radius, answer)
       ELSE IF ~Ok(answer.status) THEN JsonArray(<<>>, TRUE, radius, answer)
       ELSE IF ~answer.hasElements THEN JsonArray(<<>>, TRUE, radius, answer)
       ELSE JsonArray(answer.elements, TRUE, radius, answer)

\* searchParams.get(name): null when the parameter is missing, else its text
RequestInputs ==
    [lat : {NULL, EmptyV, StrV, NumV(9)},
     lon : {NULL, EmptyV, NumV(1), NumV(2)},
     radius : {NULL, EmptyV, NumV(5000)}]

\* what the POI service does with the endpoint's request: one of its answers,
\* or the request fails (fetch rejects)
UpstreamAnswers ==
    OverpassAnswers(0, 0)
    \cup {[kind |-> "reject", status |-> 0, hasElements |-> FALSE, elements |-> <<>>]}

ApiInit ==
    /\ PageInit
    /\ RadiusIdle
    /\ NormIdle
    /\ GeoIdle
    /\ SheetIdle
    /\ apiRequest \in RequestInputs
    /\ apiResponse = NoResponse

ServePlaces ==
    /\ phase = "off"
    /\ phase' = "answered"
    /\ \E answer \in UpstreamAnswers :
         apiResponse' = PlacesGET(apiRequest, answer)
    /\ UNCHANGED <<apiRequest, bbox, baseRadius, firstRadius, attempts>>

ApiNext == ServePlaces /\ UNCHANGED <<pageVars, normVars, geoVars, sheetVars>>

ApiSpec == ApiInit /\ [][ApiNext]_vars

\* ----------------------- the /api/geocode endpoint -----------------------

\* the city parameter of a request: missing, or a trimmed city
GeoCities == {<<>>, <<"Paris">>, <<"Lyon">>, <<"Springfield">>, <<"Atlantis">>}

\* What Nominatim does with the endpoint's request for q: the candidate
\* list, a non-success status, a body that is not a JSON array, or no
\* response at all (fetch rejects).
GeoAnswers(q) ==
    {[kind |-> "ok", status |-> 200, data |-> Candidates(q)],
     [kind |-> "malformed", status |-> 200, data |-> <<>>],
     [kind |-> "reject", status |-> 0, data |-> <<>>]}
    \cup {[kind |-> "status", status |-> st, data |-> <<>>] :
             st \in {403, 429, 500, 503, 504}}

GeoInit ==
    /\ PageInit
    /\ RadiusIdle
    /\ NormIdle
    /\ ApiIdle
    /\ \E q \in GeoCities :
         \E answer \in GeoAnswers(q) :
           geoRequest = [city |-> q, answer |-> answer]
    /\ geoResponse = ErrorResponse(0, "")
    /\ geoResult = NoGeoResult
    /\ SheetIdle

\* GET /api/geocode?city=
ServeGeocode ==
    /\ phase = "off"
    /\ phase' = "geocoded"
    /\ geoResponse' = GET(geoRequest.city, geoRequest.answer)
    /\ UNCHANGED <<geoRequest, geoResult, bbox, baseRadius, firstRadius, attempts>>

\* STEP 1 of handleSearch on the endpoint's response
ResolveGeocode ==
    /\ phase = "geocoded"
    /\ phase' = "resolved"
    /\ geoResult' = GeocodeResult(geoResponse)
    /\ UNCHANGED <<geoRequest, geoResponse, bbox, baseRadius, firstRadius, attempts>>

GeoNext ==
    \/ ServeGeocode /\ UNCHANGED <<pageVars, normVars, apiVars, sheetVars>>
    \/ ResolveGeocode /\ UNCHANGED <<pageVars, normVars, apiVars, sheetVars>>

GeoSpec == GeoInit /\ [][GeoNext]_vars

\* --------------------------- the bottom sheet ----------------------------

\* the swipe distance, in px, that a touch must exceed to move the sheet
SwipeThreshold == 50

\* clientY of a touch, in px
TouchYs == {0, 50, 51, 101, 102}

onTouchEndJump(s, deltaY) ==
    IF deltaY < -SwipeThreshold THEN "expanded"
    ELSE IF deltaY > SwipeThreshold THEN "collapsed"
    ELSE s

\* the two setSheetState calls of onTouchEnd, for a swipe of deltaY px from
\* sheet state s
onTouchEnd(s, deltaY) ==
    LET up == IF deltaY < -SwipeThreshold
              THEN (IF s = "collapsed" THEN "mid" ELSE "expanded")
              ELSE s
    IN IF deltaY > SwipeThreshold
       THEN (IF up = "expanded" THEN "mid" ELSE "collapsed")
       ELSE up

\* onTouchStart: touchStartY.current = e.touches[0].clientY
TouchStart(y) ==
    /\ touchStartY' = Defined(y)
    /\ swipe' = NoSwipe
    /\ UNCHANGED sheetState

\* onTouchEnd with e.changedTouches[0].clientY = y
TouchEnd(y) ==
    /\ swipe' = [acted |-> TRUE, before |-> sheetState,
                 hadStart |-> touchStartY.def, start |-> touchStartY.n,
                 end |-> y]
    /\ IF ~touchStartY.def
       THEN UNCHANGED <<sheetState, touchStartY>>
       ELSE /\ touchStartY' = Undefined
            /\ sheetState' = onTouchEnd(sheetState, y - touchStartY.n)

\* the effect on selectedId: a selection on a narrow viewport expands the sheet
ExpandOnSelect ==
    /\ sheetState' = "expanded"
    /\ swipe' = NoSwipe
    /\ UNCHANGED touchStartY

SheetNext ==
    \/ \E y \in TouchYs : TouchStart(y) /\ UNCHANGED <<pageVars, radiusVars, normVars, apiVars, geoVars>>
    \/ \E y \in TouchYs : TouchEnd(y) /\ UNCHANGED <<pageVars, radiusVars, normVars, apiVars, geoVars>>
    \/ ExpandOnSelect /\ UNCHANGED <<pageVars, radiusVars, normVars, apiVars, geoVars>>

SheetSpec == Init /\ [][SheetNext]_vars

\* ------------------------------ properties ------------------------------

Range(seq) == {seq[k] : k \in 1..Len(seq)}

\* C1.  Supersede: an invocation that a later invocation has superseded
\* delivers nothing: no step it takes changes the displayed result set, the
\* error message or the map centre.
C1_SupersededNeverDelivers ==
    [][\A s \in Calls :
         (calls[s].superseded /\ calls[s].pc \in InFlight /\ calls'[s] # calls[s])
         => (places' = places /\ error' = error /\ center' = center)]_vars

\* C2.  An invocation delivers at most one outcome; one that has ended without
\* being superseded has delivered exactly one, a Success, an Exhausted or a
\* Failed; a search whose last query returned zero matches ends in Exhausted,
\* and Exhausted is delivered without the catch block, with an empty set.
C2_ExactlyOneOutcome ==
    \A s \in Calls :
      LET c == calls[s]
      IN /\ Len(c.outcome) <= 1
         /\ (c.pc = "done" /\ ~c.superseded)
              => /\ Len(c.outcome) = 1
                 /\ c.outcome[1].kind \in {"Success", "Exhausted", "Failed"}
         /\ (c.pc = "done" /\ c.log # <<>> /\ c.log[Len(c.log)].outcome = "empty")
              => /\ Len(c.outcome) = 1
                 /\ c.outcome[1].kind = "Exhausted"
         /\ \A k \in 1..Len(c.outcome) :
              c.outcome[k].kind = "Exhausted"
                => ~c.raised /\ c.outcome[k].places = <<>>

C2_Witness ==
    \E s \in Calls :
      /\ calls[s].pc = "done"
      /\ ~calls[s].superseded
      /\ Len(calls[s].outcome) = 1
      /\ calls[s].outcome[1].kind = "Exhausted"

\* C3.  The queries of one invocation follow the ladder, rung by rung: the
\* k-th query sent uses the k-th radius, radii do not decrease, and every
\* query but the last one sent has returned empty or failed (none is still
\* pending, none has found anything).
C3_RungsSequential ==
    \A s \in Calls :
      LET c == calls[s]
      IN /\ Len(c.log) <= Len(c.attempts)
         /\ \A k \in 1..Len(c.log) : c.log[k].radius = c.attempts[k]
         /\ \A k \in 1..(Len(c.log) - 1) :
              /\ c.log[k].outcome \in {"empty", "error"}
              /\ c.log[k].radius <= c.log[k + 1].radius
         /\ (c.log # <<>> /\ c.log[Len(c.log)].outcome = "found") => c.pc = "done"

C3_Witness ==
    \E s \in Calls :
      /\ calls[s].pc = "done"
      /\ Len(calls[s].log) = 2
      /\ Len(calls[s].attempts) = 3
      /\ calls[s].log[1].outcome = "empty"
      /\ calls[s].log[2].outcome = "found"

\* C4.  An error thrown by a rung that is not the last is swallowed: the
\* next rung is queried.  An error thrown by the last rung ends the search in
\* Failed with that error's message.
C4_RungErrors ==
    \A s \in Calls :
      LET c == calls[s]
      IN \A k \in 1..Len(c.log) :
           c.log[k].outcome = "error"
             => IF k < Len(c.attempts)
                THEN Len(c.log) > k
                ELSE /\ c.pc = "done"
                     /\ c.raised
                     /\ c.outcome = <<[kind |-> "Failed", places |-> <<>>,
                                       error |-> c.log[k].message]>>

C4_Witness ==
    \E s \in Calls :
      /\ calls[s].pc = "done"
      /\ Len(calls[s].log) = 3
      /\ calls[s].log[1].outcome = "error"
      /\ calls[s].log[3].outcome = "error"

\* C5.  Geocoding succeeded and every rung returned zero results: the outcome
\* is Exhausted, with an empty set and the no-facilities message, not Failed.
C5_AllEmptyExhausted ==
    \A s \in Calls :
      LET c == calls[s]
      IN (/\ c.log # <<>>
          /\ Len(c.log) = Len(c.attempts)
          /\ \A k \in 1..Len(c.log) : c.log[k].outcome = "empty")
         => /\ c.pc = "done"
            /\ ~c.raised
            /\ c.outcome = <<[kind |-> "Exhausted", places |-> <<>>,
                              error |-> NoResultsMessage]>>

C5_Witness ==
    \E s \in Calls :
      /\ calls[s].geo = "match"
      /\ Len(calls[s].log) = 3
      /\ \A k \in 1..3 : calls[s].log[k].outcome = "empty"

\* C6.  The geocoder returned zero candidates: no spatial query is sent and
\* the search ends in Failed with the endpoint's 404 (city not found).
C6_NotFoundNoQueries ==
    \A s \in Calls :
      LET c == calls[s]
      IN c.geo = "zero"
         => /\ c.pc = "done"
            /\ c.log = <<>>
            /\ c.outcome = <<[kind |-> "Failed", places |-> <<>>,
                              error |-> "Geocoding failed: 404"]>>

C6_Witness ==
    \E s \in Calls : calls[s].geo = "zero" /\ calls[s].pc = "done"

\* C7.  Rungs 1 and 2 returned nothing and rung 3 returned N > 0 facilities:
\* the search has ended after exactly 3 queries in Success with exactly those
\* N facilities.
C7_ThirdRungSuccess ==
    \A s \in Calls :
      LET c == calls[s]
      IN (/\ Len(c.log) >= 3
          /\ c.log[1].outcome = "empty"
          /\ c.log[2].outcome = "empty"
          /\ c.log[3].outcome = "found")
         => /\ c.pc = "done"
            /\ Len(c.log) = 3
            /\ c.log[3].count > 0
            /\ Len(c.outcome) = 1
            /\ c.outcome[1].kind = "Success"
            /\ Len(c.outcome[1].places) = c.log[3].count
            /\ Range(c.outcome[1].places) = Range(c.results)

C7_Witness ==
    \E s \in Calls :
      /\ Len(calls[s].log) = 3
      /\ calls[s].log[1].outcome = "empty"
      /\ calls[s].log[2].outcome = "empty"
      /\ calls[s].log[3].outcome = "found"
      /\ calls[s].log[3].count = 2

LadderOK(ladder) ==
    \A k \in 1..Len(ladder) :
      /\ ladder[k] <= 50000
      /\ k < Len(ladder) => ladder[k] <= ladder[k + 1]

\* C8.  For every radius an estimator returns (the default included), the
\* ladder [r0, min(2 * r0, 50000), 50000] never decreases from one rung to the
\* next and no rung exceeds 50000.
C8_LadderBounded ==
    phase = "ladder"
      => /\ attempts = <<baseRadius, Min(2 * baseRadius, 50000), 50000>>
         /\ LadderOK(attempts)
         /\ LadderOK(Attempts(firstRadius))

C8_Witness == phase = "ladder" /\ attempts = <<35000, 50000, 50000>>

\* C9.  Each retry of a search uses a larger radius than the query before it.
C9_RetryLarger ==
    \A s \in Calls :
      \A k \in 1..(Len(calls[s].log) - 1) :
        calls[s].log[k].radius < calls[s].log[k + 1].radius

\* the documented tier table, for an area counted in units of 1/SqDeg
TierTable(area) ==
    IF area.nan THEN 5000
    ELSE IF area.n > SqDeg THEN 50000
    ELSE IF 2 * area.n > SqDeg THEN 30000
    ELSE IF 10 * area.n > SqDeg THEN 20000
    ELSE IF 100 * area.n > SqDeg THEN 10000
    ELSE 5000

C11_DefaultRadius ==
    \A s \in Calls :
      LET c == calls[s]
      IN (c.geo = "match" /\ ~Candidates(c.trimmedCity)[1].boundingbox.present)
         => /\ c.attempts = Attempts(15000)
            /\ c.log # <<>>
            /\ c.log[1].radius = 15000

C11_Witness ==
    \E s \in Calls :
      /\ calls[s].geo = "match"
      /\ ~Candidates(calls[s].trimmedCity)[1].boundingbox.present
      /\ Len(calls[s].log) = 2
      /\ calls[s].log[2].radius = 30000

\* ascending distance from (lat, lon)
NearestFirst(seq, lat, lon) ==
    \A k \in 1..(Len(seq) - 1) :
      Dist2(seq[k], lat, lon) <= Dist2(seq[k + 1], lat, lon)

\* C12.  Springfield, bounding box [39.70, 39.85, -89.70, -89.55]: the
\* initial radius is 10000 and the second rung 20000; when rung 1 returns no
\* element and rung 2 returns 3, the search has ended after exactly 2 queries
\* in Success with those 3 facilities, nearest first.
C12_Springfield ==
    \A s \in Calls :
      LET c == calls[s]
      IN (c.geo = "match" /\ c.trimmedCity = <<"Springfield">>)
         => /\ c.attempts[1] = 10000
            /\ c.attempts[2] = 20000
            /\ (/\ Len(c.log) >= 2
                /\ c.log[1].outcome = "empty"
                /\ c.log[2].outcome = "found"
                /\ c.log[2].count = 3)
               => /\ c.pc = "done"
                  /\ Len(c.log) = 2
                  /\ Len(c.outcome) = 1
                  /\ c.outcome[1].kind = "Success"
                  /\ Range(c.outcome[1].places) = Range(c.results)
                  /\ Len(c.outcome[1].places) = 3
                  /\ NearestFirst(c.outcome[1].places, c.lat, c.lon)

\* C13.  No Place that fetchPlaces emits has a latitude outside [-90, 90] or
\* a longitude outside [-180, 180].
C13_InRangeOnly ==
    phase = "normalized"
      => \A k \in 1..Len(normalized) :
           InRange(normalized[k].lat, normalized[k].lon)

\* C14.  Ids are unique in the result set of fetchPlaces: of the elements
\* that share an id, one Place is emitted.
C14_UniqueIds ==
    phase = "normalized"
      => \A j, k \in 1..Len(normalized) :
           j # k => normalized[j].id # normalized[k].id

\* C15.  An element without lat/lon that has a centroid in range becomes a
\* Place at the centroid; an element with lat/lon of its own is never placed
\* elsewhere; an element with neither is dropped.
C15_CentroidFallback ==
    phase = "normalized"
      => /\ \A k \in 1..Len(raw) :
              LET el == raw[k]
              IN (/\ ~el.lat.def /\ ~el.lon.def /\ el.center.def
                  /\ InRange(el.center.lat, el.center.lon))
                 => \E j \in 1..Len(normalized) :
                      /\ normalized[j].id = el.id
                      /\ normalized[j].lat = el.center.lat
                      /\ normalized[j].lon = el.center.lon
         /\ \A j \in 1..Len(normalized) :
              \E k \in 1..Len(raw) :
                LET el == raw[k]
                IN /\ el.id = normalized[j].id
                   /\ (el.lat.def \/ el.center.def)
                   /\ el.lat.def => (/\ normalized[j].lat = el.lat.n
                                     /\ normalized[j].lon = el.lon.n)

\* C16.  The facilities of a Success are in ascending order of distance from
\* the geocoded origin, and facilities at equal distance are in ascending
\* order of id.
C16_DistanceThenId ==
    \A s \in Calls :
      LET c == calls[s]
      IN \A n \in 1..Len(c.outcome) :
           c.outcome[n].kind = "Success"
             => LET seq == c.outcome[n].places
                IN \A k \in 1..(Len(seq) - 1) :
                     \/ Dist2(seq[k], c.lat, c.lon) < Dist2(seq[k + 1], c.lat, c.lon)
                     \/ /\ Dist2(seq[k], c.lat, c.lon) = Dist2(seq[k + 1], c.lat, c.lon)
                        /\ seq[k].id < seq[k + 1].id

\* the case a finished invocation ended in, by what the services answered
TerminalCase(c) ==
    IF c.geo = "zero" THEN "place-not-found"
    ELSE IF c.geo # "match" THEN "service-unavailable"
    ELSE LET last == c.log[Len(c.log)]
         IN IF last.outcome = "found" THEN "success"
            ELSE IF last.outcome = "empty" THEN "no-facilities-nearby"
            ELSE IF Ok(last.status) \/ last.status = 0 THEN "timed-out"
            ELSE "service-unavailable"

FailureCases ==
    {"place-not-found", "service-unavailable", "timed-out", "no-facilities-nearby"}

\* the message fetchPlaces throws for an aborted request
TimeoutMessage ==
    fetchPlaces([kind |-> "abort", status |-> 0, hasElements |-> FALSE,
                 elements |-> <<>>]).message

C18_DeadlineEndsQuery ==
    \A s \in Calls :
      LET c == calls[s]
      IN c.aborted
         => /\ c.log[Len(c.log)].outcome = "error"
            /\ c.log[Len(c.log)].message = TimeoutMessage

C20_AlwaysArray ==
    phase = "answered"
      => /\ apiResponse.status = 200
         /\ apiResponse.json = "array"
         /\ IF ~Truthy(apiRequest.lat) \/ ~Truthy(apiRequest.lon)
            THEN apiResponse.body = <<>> /\ ~apiResponse.fetched
            ELSE /\ apiResponse.fetched
                 /\ IF apiResponse.upstream.kind = "ok"
                    THEN apiResponse.body = apiResponse.upstream.elements
                    ELSE apiResponse.body = <<>>

C20_Witness ==
    /\ phase = "answered"
    /\ apiResponse.fetched
    /\ apiResponse.upstream.kind = "status"
    /\ apiResponse.status = 200
    /\ apiResponse.body = <<>>

C22_NoResend ==
    \A s \in Calls :
      LET c == calls[s]
      IN /\ c.pc # "idle" => c.geocodes = 1
         /\ c.geo # "match" => c.log = <<>>
         /\ Len(c.log) <= Len(c.attempts)
         /\ \A k \in 1..Len(c.log) : c.log[k].rung = k
         /\ \A j, k \in 1..Len(c.log) : j # k => c.log[j].rung # c.log[k].rung

C22_Witness ==
    \E s \in Calls :
      /\ calls[s].pc = "done"
      /\ calls[s].geocodes = 1
      /\ Len(calls[s].log) = 3
      /\ calls[s].log[1].outcome = "error"
      /\ calls[s].log[2].outcome = "empty"
      /\ calls[s].log[3].rung = 3

\* C23.  Every Place carries the tags of the element it was made from, and
\* an element with valid coordinates and no tags is retained as a Place.
C23_TagsRetained ==
    phase = "normalized"
      => /\ \A j \in 1..Len(normalized) :
              \E k \in 1..Len(raw) :
                /\ raw[k].id = normalized[j].id
                /\ raw[k].tags = normalized[j].tags
         /\ \A k \in 1..Len(raw) :
              LET el == raw[k]
                  lat == ElementLat(el)
                  lon == ElementLon(el)
              IN (/\ ~el.tags.def
                  /\ lat.def /\ lon.def
                  /\ InRange(lat.n, lon.n))
                 => \E j \in 1..Len(normalized) :
                      /\ normalized[j].id = el.id
                      /\ normalized[j].tags = el.tags

\* C24.  Ranking leaves its input as it was: after the results of a Success
\* have been ranked, the results array holds the same facilities in the same
\* order as before the ranking.
C24_InputNotMutated ==
    \A s \in Calls :
      LET c == calls[s]
      IN \A n \in 1..Len(c.outcome) :
           c.outcome[n].kind = "Success" => c.results = c.unranked

\* C25.  A search ends in Exhausted only if every rung of the ladder was
\* queried and each answered successfully with zero results: no rung of an
\* Exhausted search has failed.
C25_ExhaustedOnlyAllEmpty ==
    \A s \in Calls :
      LET c == calls[s]
      IN \A n \in 1..Len(c.outcome) :
           c.outcome[n].kind = "Exhausted"
             => /\ Len(c.log) = Len(c.attempts)
                /\ \A k \in 1..Len(c.log) : c.log[k].outcome = "empty"

NoneInFlight == \A s \in Calls : calls[s].pc \notin InFlight

\* C26.  When no invocation is in flight, a non-empty displayed result set
\* comes with no error message.
C26_ResultsWithoutError ==
    (NoneInFlight /\ places # <<>>) => error = null

\* C27.  The loading flag is true whenever some invocation has a geocode
\* request or a spatial query pending.
C27_LoadingWhileInFlight ==
    (\E s \in Calls : calls[s].pc \in InFlight) => loading

\* C28.  selectedId is null or the id of a facility of the displayed result
\* set.
C28_SelectionDisplayed ==
    selectedId # <<>>
      => \E k \in 1..Len(places) : places[k].id = selectedId[1]

\* C29.  handleSearch with an empty or whitespace-only city sends no request
\* (no invocation starts or moves), sets the error to "Please enter a city
\* name" and leaves the result set, selectedId, the map centre and the
\* loading flag as they were.
C29_BlankSearchFrame ==
    [][\A s \in Calls :
         (Trim(city) = <<>> /\ HandleSearch(s))
         => /\ error' = BlankMessage
            /\ calls' = calls
            /\ places' = places
            /\ selectedId' = selectedId
            /\ center' = center
            /\ loading' = loading]_vars

C29_Witness ==
    /\ Trim(city) = <<>>
    /\ error = BlankMessage
    /\ places # <<>>
    /\ selectedId # <<>>
    /\ \A s \in Calls : calls[s].pc \notin InFlight

SheetOrder == <<"collapsed", "mid", "expanded">>
SheetRank(s) == CHOOSE k \in 1..3 : SheetOrder[k] = s
TowardsExpanded(s) == SheetOrder[Min(SheetRank(s) + 1, 3)]
TowardsCollapsed(s) == SheetOrder[IF SheetRank(s) = 1 THEN 1 ELSE SheetRank(s) - 1]

\* C30.  The bottom sheet is collapsed, mid or expanded.  After a touch end:
\* a swipe up of more than 50 px has moved it one step towards expanded, a
\* swipe down of more than 50 px one step towards collapsed (the end states
\* stay), a swipe of 50 px or less, or a touch end without a recorded touch
\* start, has left it as it was.
C30_SheetSteps ==
    /\ sheetState \in {"collapsed", "mid", "expanded"}
    /\ swipe.acted
         => LET deltaY == swipe.end - swipe.start
            IN IF ~swipe.hadStart THEN sheetState = swipe.before
               ELSE IF deltaY < -50 THEN sheetState = TowardsExpanded(swipe.before)
               ELSE IF deltaY > 50 THEN sheetState = TowardsCollapsed(swipe.before)
               ELSE sheetState = swipe.before

C30_Witness ==
    /\ swipe.acted
    /\ swipe.hadStart
    /\ swipe.before = "collapsed"
    /\ swipe.end - swipe.start = -51
    /\ sheetState = "mid"

====
